---- MODULE Spec2Model ----
(***************************************************************************)
(* RecruitIQ: the job-record upsert pipeline.                              *)
(*                                                                         *)
(* The model follows one run of _save_jobs_to_db (src/cli.py) over a batch *)
(* of scraped records: validate_job_data, then update_or_create_job_posting*)
(* (src/db/session.py) against the job_postings table                      *)
(* (src/recruitiq/db/models.py).  The table is the set of committed rows;  *)
(* the ORM session is the transaction state of the writer.                 *)
(*                                                                         *)
(* Python values are optional values: None is <<>>, a value v is <<v>>.    *)
(* A mapping (dict) is a function whose domain is the set of its keys, so  *)
(* an absent key, a key holding None and a key holding a value differ.     *)
(* Text that the code measures (title, company_name, location,             *)
(* job_description) is a sequence of characters.                           *)
(***************************************************************************)
EXTENDS Integers, Sequences, FiniteSets, TLC

\* ------------------------------------------------------------------ bounds
MaxBatch == 4       \* records in one batch
MaxFaults == 1      \* storage faults (connection failures) in one run
MaxClock == 1       \* readings of the database clock
MaxStored == 2      \* records upserted into a table that is enriched

\* ------------------------------------------------------- optional values
None == <<>>
Some(v) == <<v>>
Val(o) == o[1]

\* dict.get(key): None when the key is absent
Get(job_data, key) == IF key \in DOMAIN job_data THEN job_data[key] ELSE None

\* ------------------------------------------------------------ the table
\* the columns of job_postings
Columns ==
    {"id", "title", "company_name", "location", "posted_date", "salary_min",
     "salary_max", "salary_currency", "employment_type", "job_description",
     "source_platform", "url", "last_scraped", "created_at", "updated_at",
     "is_active"}

\* the scalar data fields a scrape carries
DataFields ==
    {"title", "company_name", "location", "posted_date", "salary_min",
     "salary_max", "salary_currency", "employment_type", "job_description"}

\* nullable=False columns
NotNullColumns == {"title", "company_name", "source_platform", "url"}

\* server_default=func.now() columns
ServerNowColumns == {"last_scraped", "created_at", "updated_at"}

\* UniqueConstraint('url', 'source_platform'): the natural key, which the
\* lookup of update_or_create_job_posting filters on
KeyColumnsWithTitle == {"url", "source_platform", "title"}
KeyColumns == {"url", "source_platform"}

Max(S) == CHOOSE x \in S : \A y \in S : y <= x

\* the integer primary key a new row gets when the INSERT names none
NextId(view) ==
    IF view = {} THEN 1 ELSE Max({Val(r["id"]) : r \in view}) + 1

\* ---------------------------------------------------------------- text
IsSpace(ch) == ch = " "

RECURSIVE LStrip(_)
LStrip(s) == IF s # <<>> /\ IsSpace(Head(s)) THEN LStrip(Tail(s)) ELSE s

RECURSIVE RStrip(_)
RStrip(s) ==
    IF s # <<>> /\ IsSpace(s[Len(s)]) THEN RStrip(SubSeq(s, 1, Len(s) - 1)) ELSE s

\* str.strip()
Strip(s) == RStrip(LStrip(s))

\* Python truth of an optional text: None and '' are false
TruthyText(o) == o # None /\ Val(o) # <<>>

\* ----------------------------------------------------------- validation
MinTitleLen == 2
MaxTitleLen == 200
MinCompanyLen == 1
MaxCompanyLen == 200
MaxLocationLen == 200
MaxDescriptionLen == 10000
MinSalary == 0
MaxSalary == 1000000

RequiredFields == {"title", "company_name"}

SalaryOkExclusive(o) == o = None \/ (Val(o) >= MinSalary /\ Val(o) < MaxSalary)
SalaryOk(o) == o = None \/ (Val(o) >= MinSalary /\ Val(o) <= MaxSalary)

\* validate_job_data: TRUE when the record may go on to storage.  No record
\* of this model carries a job_url key, so the URL pattern is never consulted.
validate_job_data(job_data) ==
    /\ \A field \in RequiredFields :
          /\ TruthyText(Get(job_data, field))
          /\ Strip(Val(job_data[field])) # <<>>
    /\ LET title == Strip(Val(job_data["title"]))
       IN  ~(Len(title) < MinTitleLen \/ Len(title) > MaxTitleLen)
    /\ LET company == Strip(Val(job_data["company_name"]))
       IN  ~(Len(company) < MinCompanyLen \/ Len(company) > MaxCompanyLen)
    /\ TruthyText(Get(job_data, "location"))
          => ~(Len(Strip(Val(job_data["location"]))) > MaxLocationLen)
    /\ TruthyText(Get(job_data, "description"))
          => ~(Len(Strip(Val(job_data["description"]))) > MaxDescriptionLen)
    /\ SalaryOk(Get(job_data, "salary_min"))
    /\ SalaryOk(Get(job_data, "salary_max"))

\* ------------------------------------------------------------- the lookup
\* session.query(JobPosting).filter(url == ..., source_platform == ...):
\* the stored rows whose natural key is the record's
Matching(view, job_data) ==
    {r \in view : \A c \in KeyColumns : r[c] = Get(job_data, c)}

\* .first(): a matching row, or None
FindExisting(view, job_data) ==
    LET found == Matching(view, job_data)
    IN  IF found = {} THEN None ELSE Some(CHOOSE r \in found : TRUE)

\* ------------------------------------------------------------ the update
\* for key, value in job_data.items(): setattr(existing_job, key, value).
\* A key that names no column becomes a plain attribute of the object and
\* never reaches the table.
SetAttrsKeepOld(row, job_data) == row
SetAttrsAbsentAsNone(row, job_data) ==
    [c \in Columns |->
        IF c \in DOMAIN job_data THEN job_data[c]
        ELSE IF c \in DataFields THEN None ELSE row[c]]
SetAttrsSkipTitle(row, job_data) ==
    [c \in Columns |->
        IF c \in DOMAIN job_data /\ c # "title" THEN job_data[c] ELSE row[c]]
SetAttrsReactivate(row, job_data) ==
    [c \in Columns |->
        IF c \in DOMAIN job_data THEN job_data[c]
        ELSE IF c = "is_active" THEN Some(TRUE) ELSE row[c]]
SetAttrs(row, job_data) ==
    [c \in Columns |-> IF c \in DOMAIN job_data THEN job_data[c] ELSE row[c]]

\* ------------------------------------------------------------ the insert
\* JobPosting(**job_data) raises TypeError for a key that is no column
ConstructOk(job_data) == DOMAIN job_data \subseteq Columns

\* The row an INSERT of JobPosting(**job_data) writes at clock reading t.
\* The ORM leaves out of the INSERT every attribute that is unset or None,
\* so the column default then applies: the next integer for id, "USD" for
\* salary_currency, True for is_active, now() for the three timestamps.
NewRowNoDefaults(job_data, view, t) ==
    [c \in Columns |->
        IF Get(job_data, c) # None THEN job_data[c]
        ELSE IF c = "id" THEN Some(NextId(view))
        ELSE IF c \in ServerNowColumns THEN Some(t)
        ELSE None]
NewRow(job_data, view, t) ==
    [c \in Columns |->
        IF Get(job_data, c) # None THEN job_data[c]
        ELSE IF c = "id" THEN Some(NextId(view))
        ELSE IF c = "salary_currency" THEN Some("USD")
        ELSE IF c = "is_active" THEN Some(TRUE)
        ELSE IF c \in ServerNowColumns THEN Some(t)
        ELSE None]

\* -------------------------------------------------------- the constraints
\* a table without the unique constraint on (url, source_platform)
ViolatesNoUnique(row, others) ==
    \/ \E c \in NotNullColumns : row[c] = None
    \/ row["id"] = None
    \/ \E r \in others : r["id"] = row["id"]

\* what the table refuses of a row written next to the rows `others`
Violates(row, others) ==
    \/ \E c \in NotNullColumns : row[c] = None
    \/ row["id"] = None
    \/ \E r \in others : r["id"] = row["id"]
    \/ \E r \in others : \A c \in KeyColumns : r[c] = row[c]

\* the columns an UPDATE of old to new sets: those with a net change
Changed(old, new) == {c \in Columns : new[c] # old[c]}

\* The row an UPDATE writes at clock reading t.  With no net change the
\* ORM emits no UPDATE; otherwise onupdate=func.now() sets updated_at
\* unless the UPDATE itself sets that column.
UpdatedRowAlwaysTouch(old, new, t) == [new EXCEPT !["updated_at"] = Some(t)]
UpdatedRow(old, new, t) ==
    IF Changed(old, new) = {} THEN old
    ELSE IF "updated_at" \in Changed(old, new) THEN new
    ELSE [new EXCEPT !["updated_at"] = Some(t)]

\* session.commit(): the flushed rows become the committed rows
SessionCommitDropOld(committed, flushed) == flushed \ committed
SessionCommit(committed, flushed) == flushed

\* session.rollback(): the transaction in progress is dropped; what earlier
\* commits stored is not part of it
SessionRollbackAll(committed) == {}
SessionRollback(committed) == committed

\* ------------------------------------------------- the records of a batch
Dev == <<"D", "e", "v">>
QA == <<"Q", "A">>
Acme == <<"A", "c", "m", "e">>
NYC == <<"N", "Y", "C">>

\* a record as the scrapers build it: all eleven keys
ScrapedIndeed ==
    [title |-> Some(Dev), company_name |-> Some(Acme), location |-> Some(NYC),
     posted_date |-> Some(1), salary_min |-> Some(100000),
     salary_max |-> Some(100000), salary_currency |-> Some("USD"),
     employment_type |-> Some("Full-time"),
     job_description |-> Some(<<"p", "y">>),
     source_platform |-> Some("Indeed"), url |-> Some("http://x.com/1")]

\* the same listing seen again with another title and salary, the optional
\* keys left out and location None
RescrapedIndeed ==
    [title |-> Some(QA), company_name |-> Some(Acme), location |-> None,
     salary_min |-> Some(110000),
     source_platform |-> Some("Indeed"), url |-> Some("http://x.com/1")]

\* the same URL on another platform, inactive, currency None
InactiveLinkedIn ==
    [title |-> Some(Dev), company_name |-> Some(Acme),
     salary_currency |-> None, is_active |-> Some(FALSE),
     source_platform |-> Some("LinkedIn"), url |-> Some("http://x.com/1")]

\* a mapping that names the primary key
IndeedWithId ==
    [id |-> Some(2), title |-> Some(Dev), company_name |-> Some(Acme),
     source_platform |-> Some("Indeed"), url |-> Some("http://x.com/1")]

\* a record validate_job_data rejects: a title of one character
ShortTitle ==
    [title |-> Some(<<"D">>), company_name |-> Some(Acme),
     source_platform |-> Some("LinkedIn"), url |-> Some("http://x.com/1")]

\* a record validate_job_data accepts and the table refuses: the platform
\* is None and source_platform is nullable=False
NoPlatform ==
    [title |-> Some(Dev), company_name |-> Some(Acme),
     source_platform |-> None, url |-> Some("http://x.com/1")]

\* the LinkedIn listing scraped again: no is_active key, as every scraper
\* builds its records
RescrapedLinkedIn ==
    [title |-> Some(QA), company_name |-> Some(Acme),
     source_platform |-> Some("LinkedIn"), url |-> Some("http://x.com/1")]

Samples ==
    <<ScrapedIndeed, RescrapedIndeed, InactiveLinkedIn, IndeedWithId,
      ShortTitle, NoPlatform, RescrapedLinkedIn>>

\* ---------------------------------------------------------------- state
Writers == {"w1"}

VARIABLES
    db,            \* the committed rows of job_postings
    now,           \* the database clock, func.now()
    faults,        \* storage faults so far
    pc,            \* where each writer is in _save_jobs_to_db
    session,       \* each writer's ORM session
    nrec,          \* len(jobs)
    idx,           \* records of the batch taken so far
    job_data,      \* the record in hand
    existing_job,  \* what the lookup returned
    job_posting,   \* the row the commit wrote
    saved_count,   \* the count _save_jobs_to_db returns
    invalid,       \* records validate_job_data rejected
    errors,        \* records whose own storage statement failed
    committed,     \* records whose write was committed
    last_call,     \* how the last update_or_create_job_posting call ended
    request,       \* the validation, enrichment or search call in hand
    response       \* what that call returned

vars ==
    <<db, now, faults, pc, session, nrec, idx, job_data, existing_job,
      job_posting, saved_count, invalid, errors, committed, last_call,
      request, response>>

\* the exceptions of a storage statement that fails on its own account
StorageErrors == {"IntegrityError", "OperationalError", "InvalidRequestError"}

\* the writers' side of the state, without the table
pipelineVars ==
    <<now, faults, pc, session, nrec, idx, job_data, existing_job,
      job_posting, saved_count, invalid, errors, committed, last_call>>

\* no batch has started
PipelineIdle ==
    /\ now = 0
    /\ faults = 0
    /\ pc = [w \in Writers |-> "idle"]
    /\ session = [w \in Writers |-> "none"]
    /\ nrec = [w \in Writers |-> 0]
    /\ idx = [w \in Writers |-> 0]
    /\ job_data = [w \in Writers |-> None]
    /\ existing_job = [w \in Writers |-> None]
    /\ job_posting = [w \in Writers |-> None]
    /\ saved_count = [w \in Writers |-> 0]
    /\ invalid = [w \in Writers |-> 0]
    /\ errors = [w \in Writers |-> 0]
    /\ committed = [w \in Writers |-> 0]
    /\ last_call = [w \in Writers |-> None]

Init ==
    /\ db = {}
    /\ PipelineIdle
    /\ request = None
    /\ response = None

\* ---------------------------------------------------- _save_jobs_to_db
\* if not jobs: return 0; else session = get_session(), saved_count = 0
SaveJobsStart(w) ==
    /\ pc[w] = "idle"
    /\ UNCHANGED <<request, response>>
    /\ \E empty \in BOOLEAN :
          IF empty
          THEN /\ pc' = [pc EXCEPT ![w] = "done"]
               /\ UNCHANGED session
          ELSE /\ pc' = [pc EXCEPT ![w] = "loop"]
               /\ session' = [session EXCEPT ![w] = "open"]
    /\ UNCHANGED <<db, now, faults, nrec, idx, job_data, existing_job,
                   job_posting, saved_count, invalid, errors, committed,
                   last_call>>

\* for job_data in jobs: if validate_job_data(job_data): ...
NextRecord(w) ==
    /\ pc[w] = "loop"
    /\ UNCHANGED <<request, response>>
    /\ idx[w] < MaxBatch
    /\ idx' = [idx EXCEPT ![w] = @ + 1]
    /\ \E i \in 1..Len(Samples) :
          IF validate_job_data(Samples[i])
          THEN /\ job_data' = [job_data EXCEPT ![w] = Some(Samples[i])]
               /\ pc' = [pc EXCEPT ![w] = "query"]
               /\ UNCHANGED invalid
          ELSE /\ invalid' = [invalid EXCEPT ![w] = @ + 1]
               /\ UNCHANGED <<job_data, pc>>
    /\ UNCHANGED <<db, now, faults, session, nrec, existing_job, job_posting,
                   saved_count, errors, committed, last_call>>

\* update_or_create_job_posting raised exc: except Exception: continue.
\* The session is left as `after`.
Raises(w, exc, path, after) ==
    /\ pc' = [pc EXCEPT ![w] = "loop"]
    /\ session' = [session EXCEPT ![w] = after]
    /\ errors' = [errors EXCEPT ![w] = IF exc \in StorageErrors THEN @ + 1 ELSE @]
    /\ last_call' = [last_call EXCEPT ![w] =
                        Some([job |-> Val(job_data[w]), path |-> path,
                              exc |-> exc, id |-> None])]
    /\ job_data' = [job_data EXCEPT ![w] = None]
    /\ existing_job' = [existing_job EXCEPT ![w] = None]
    /\ job_posting' = [job_posting EXCEPT ![w] = None]
    /\ UNCHANGED <<nrec, idx, saved_count, invalid>>

\* ------------------------------------------ update_or_create_job_posting
\* Lines 50-53: job_data['url'] and job_data['source_platform'] raise
\* KeyError when absent; a session whose transaction a failed flush or
\* commit left unusable refuses the query until rollback() is called.
Lookup(w) ==
    /\ pc[w] = "query"
    /\ UNCHANGED <<request, response>>
    /\ LET jd == Val(job_data[w])
       IN  IF ~(KeyColumns \subseteq DOMAIN jd)
           THEN Raises(w, "KeyError", "none", session[w]) /\ UNCHANGED committed
           ELSE IF session[w] = "invalid"
           THEN Raises(w, "PendingRollbackError", "none", session[w])
                /\ UNCHANGED committed
           ELSE /\ existing_job' = [existing_job EXCEPT ![w] = FindExisting(db, jd)]
                /\ pc' = [pc EXCEPT ![w] = "write"]
                /\ UNCHANGED <<session, nrec, idx, job_data, job_posting,
                               saved_count, invalid, errors, committed,
                               last_call>>
    /\ UNCHANGED <<db, now, faults>>

\* the clock readings a statement issued now may see
ClockReadings == {now, IF now < MaxClock THEN now + 1 ELSE now}

\* whether the storage may fail at this statement
MayFault == IF faults < MaxFaults THEN {FALSE, TRUE} ELSE {FALSE}

\* the write is committed; refresh and return are still to come
Committed(w, row) ==
    /\ job_posting' = [job_posting EXCEPT ![w] = Some(row)]
    /\ pc' = [pc EXCEPT ![w] = "refresh"]
    /\ committed' = [committed EXCEPT ![w] = @ + 1]
    /\ UNCHANGED <<session, nrec, idx, job_data, existing_job, saved_count,
                   invalid, errors, last_call>>

\* lines 55-59, the update path: setattr, then session.commit().  An
\* exception leaves the session without a rollback.
UpdateCommit(w, t, fault) ==
    LET old == Val(existing_job[w])
        new == UpdatedRow(old, SetAttrs(old, Val(job_data[w])), t)
        others == db \ {old}
    IN  IF fault
        THEN /\ Raises(w, "OperationalError", "update", "invalid")
             /\ UNCHANGED <<db, committed>>
        ELSE IF new # old /\ Violates(new, others)
        THEN /\ Raises(w, "IntegrityError", "update", "invalid")
             /\ UNCHANGED <<db, committed>>
        ELSE /\ db' = SessionCommit(db, others \cup {new})
             /\ Committed(w, new)

\* save_job_posting, lines 28-32 and 35-37: JobPosting(**job_data), add,
\* commit; an exception of add or commit rolls the session back
InsertCommit(w, t, fault) ==
    LET jd == Val(job_data[w])
        row == NewRow(jd, db, t)
    IN  IF ~ConstructOk(jd)
        THEN /\ Raises(w, "TypeError", "insert", session[w])
             /\ UNCHANGED <<db, committed>>
        ELSE IF fault
        THEN /\ Raises(w, "OperationalError", "insert", "open")
             /\ db' = SessionRollback(db)
             /\ UNCHANGED committed
        ELSE IF Violates(row, db)
        THEN /\ Raises(w, "IntegrityError", "insert", "open")
             /\ db' = SessionRollback(db)
             /\ UNCHANGED committed
        ELSE /\ db' = SessionCommit(db, db \cup {row})
             /\ Committed(w, row)

\* if existing_job: ... else: return save_job_posting(session, job_data)
Write(w) ==
    /\ pc[w] = "write"
    /\ UNCHANGED <<request, response>>
    /\ \E t \in ClockReadings, fault \in MayFault :
          /\ now' = t
          /\ faults' = IF fault THEN faults + 1 ELSE faults
          /\ IF existing_job[w] # None
             THEN UpdateCommit(w, t, fault)
             ELSE InsertCommit(w, t, fault)

\* session.refresh(obj): the committed row with the object's primary key
Refreshed(view, obj) == {r \in view : r["id"] = obj["id"]}

PathOf(w) == IF existing_job[w] # None THEN "update" ELSE "insert"

\* session.refresh(...) and return; saved_count += 1 in the caller.  A
\* failing refresh raises: after a rollback on the insert path (line 36),
\* without one on the update path.
Refresh(w) ==
    /\ pc[w] = "refresh"
    /\ UNCHANGED <<request, response>>
    /\ \E fault \in MayFault :
          /\ faults' = IF fault THEN faults + 1 ELSE faults
          /\ LET rows == Refreshed(db, Val(job_posting[w]))
                 after == IF PathOf(w) = "insert" THEN "open" ELSE "invalid"
             IN  IF fault \/ rows = {}
                 THEN /\ Raises(w, IF fault THEN "OperationalError"
                                           ELSE "InvalidRequestError",
                                PathOf(w), after)
                      /\ db' = IF PathOf(w) = "insert"
                               THEN SessionRollback(db) ELSE db
                 ELSE /\ pc' = [pc EXCEPT ![w] = "loop"]
                      /\ saved_count' = [saved_count EXCEPT ![w] = @ + 1]
                      /\ last_call' = [last_call EXCEPT ![w] =
                            Some([job |-> Val(job_data[w]), path |-> PathOf(w),
                                  exc |-> "",
                                  id |-> (CHOOSE r \in rows : TRUE)["id"]])]
                      /\ job_data' = [job_data EXCEPT ![w] = None]
                      /\ existing_job' = [existing_job EXCEPT ![w] = None]
                      /\ job_posting' = [job_posting EXCEPT ![w] = None]
                      /\ UNCHANGED <<db, session, nrec, idx, invalid, errors>>
    /\ UNCHANGED <<now, committed>>

\* the list is exhausted: return saved_count; finally: session.close().
\* nrec records how long the list was.
SaveJobsReturn(w) ==
    /\ pc[w] = "loop"
    /\ UNCHANGED <<request, response>>
    /\ idx[w] >= 1
    /\ nrec' = [nrec EXCEPT ![w] = idx[w]]
    /\ pc' = [pc EXCEPT ![w] = "done"]
    /\ session' = [session EXCEPT ![w] = "closed"]
    /\ UNCHANGED <<db, now, faults, idx, job_data, existing_job, job_posting,
                   saved_count, invalid, errors, committed, last_call>>

\* The process is interrupted in the middle of the batch: its memory and
\* whatever its session has not committed are gone, the committed rows stay.
Interrupt(w) ==
    /\ pc[w] \in {"loop", "query", "write", "refresh"}
    /\ UNCHANGED <<request, response>>
    /\ pc' = [pc EXCEPT ![w] = "killed"]
    /\ session' = [session EXCEPT ![w] = "closed"]
    /\ nrec' = [nrec EXCEPT ![w] = 0]
    /\ idx' = [idx EXCEPT ![w] = 0]
    /\ job_data' = [job_data EXCEPT ![w] = None]
    /\ existing_job' = [existing_job EXCEPT ![w] = None]
    /\ job_posting' = [job_posting EXCEPT ![w] = None]
    /\ saved_count' = [saved_count EXCEPT ![w] = 0]
    /\ invalid' = [invalid EXCEPT ![w] = 0]
    /\ errors' = [errors EXCEPT ![w] = 0]
    /\ committed' = [committed EXCEPT ![w] = 0]
    /\ last_call' = [last_call EXCEPT ![w] = None]
    /\ UNCHANGED <<db, now, faults>>

Next ==
    \E w \in Writers :
        \/ SaveJobsStart(w)
        \/ NextRecord(w)
        \/ Lookup(w)
        \/ Write(w)
        \/ Refresh(w)
        \/ SaveJobsReturn(w)
        \/ Interrupt(w)

Spec == Init /\ [][Next]_vars

\* ------------------------------------------------------------ properties
\* The upsert in hand has committed its write; session.refresh and the
\* return, which change no row, are still to come.
Written(w) == pc[w] = "refresh"

Job(w) == Val(job_data[w])
Found(w) == Val(existing_job[w])
Row(w) == Val(job_posting[w])

\* the call before the one in hand returned
PrevReturned(w) == last_call[w] # None /\ Val(last_call[w]).exc = ""
Prev(w) == Val(last_call[w])

\* the stored rows with the (url, source_platform) of a record
RowsFor(job) ==
    {r \in db : /\ r["url"] = Get(job, "url")
                /\ r["source_platform"] = Get(job, "source_platform")}

\* the stored row carries every column value the record names
Carries(row, job) == \A c \in DOMAIN job \cap Columns : row[c] = job[c]

\* C1: whatever calls a single writer has made, returned or raised, no two
\* stored rows have the same (url, source_platform).
C1_NaturalKeyUnique ==
    \A r1, r2 \in db :
        (r1["url"] = r2["url"] /\ r1["source_platform"] = r2["source_platform"])
            => r1 = r2

\* two rows are stored, one of them rewritten by an update, and an insert
\* was refused
C1_Witness ==
    \E w \in Writers :
        /\ Cardinality(db) = 2
        /\ saved_count[w] > 2
        /\ last_call[w] # None
        /\ Val(last_call[w]).exc = "IntegrityError"

\* C2: the same record upserted twice in a row is stored as exactly one row
\* for its key; the row carries the record's values and has the id the
\* first call returned.
C2_IdempotentRescrape ==
    \A w \in Writers :
        (Written(w) /\ PrevReturned(w) /\ Prev(w).job = Job(w))
        => /\ Cardinality(RowsFor(Job(w))) = 1
           /\ \A r \in RowsFor(Job(w)) :
                 /\ Carries(r, Job(w))
                 /\ r["id"] = Prev(w).id
           /\ Row(w)["id"] = Prev(w).id

\* a record was inserted and upserted again
C2_Witness ==
    \E w \in Writers :
        /\ Written(w) /\ PrevReturned(w) /\ Prev(w).job = Job(w)
        /\ Prev(w).path = "insert" /\ PathOf(w) = "update"

\* C3: record A and then record B, of the same key and with different
\* titles, leave one row for the key, with B's title.
C3_LastWriteWins ==
    \A w \in Writers :
        (/\ Written(w) /\ PrevReturned(w)
         /\ Get(Prev(w).job, "url") = Get(Job(w), "url")
         /\ Get(Prev(w).job, "source_platform") = Get(Job(w), "source_platform")
         /\ Prev(w).job["title"] # Job(w)["title"])
        => /\ Cardinality(RowsFor(Job(w))) = 1
           /\ \A r \in RowsFor(Job(w)) : r["title"] = Job(w)["title"]

C3_Witness ==
    \E w \in Writers :
        /\ Written(w) /\ PrevReturned(w)
        /\ RowsFor(Prev(w).job) = RowsFor(Job(w))
        /\ Prev(w).job["title"] = Some(Dev)
        /\ Job(w)["title"] = Some(QA)
        /\ \E r \in db : r["title"] = Some(QA)

C5_SessionStaysUsable ==
    \A w \in Writers :
        /\ pc[w] \in {"loop", "query", "write", "refresh"}
              => session[w] # "invalid"
        /\ last_call[w] # None
              => Val(last_call[w]).exc # "PendingRollbackError"

\* C6 as stated: _save_jobs_to_db returns the number of records it
\* committed, and every record that neither failed validation nor failed in
\* storage is stored and counted (of 5 records with one invalid and one
\* failing in storage, 3).
C6_SavedCountIsStoredCount ==
    \A w \in Writers :
        pc[w] = "done"
        => /\ saved_count[w] = committed[w]
           /\ saved_count[w] = nrec[w] - invalid[w] - errors[w]

\* what the upsert in hand wrote is stored
WrittenIsStored ==
    \A w \in Writers :
        Written(w)
        => /\ Row(w) \in db
           /\ \A c \in DOMAIN Job(w) \cap Columns :
                 Job(w)[c] # None => Row(w)[c] = Job(w)[c]

\* a stored row stays as it is through every step but the commit of a later
\* upsert that found this very row
RowsOutlive ==
    \A r \in db :
        \/ r \in db'
        \/ \E w \in Writers :
              /\ pc[w] = "write" /\ pc'[w] = "refresh"
              /\ existing_job[w] = Some(r)

\* C7: each record is committed on its own.  Once the upsert of a record has
\* committed, the record is stored with the values written, and no later
\* step of the run (the refresh and return, a failed write and its rollback,
\* an interruption, the end of the batch) changes or removes a stored row;
\* only a later upsert that finds the row and commits rewrites it.
C7_CommittedPerRecord == []WrittenIsStored /\ [][RowsOutlive]_vars

\* a later insert failed and was rolled back; the record stored before it is
\* still there
C7_Witness ==
    \E w \in Writers :
        /\ last_call[w] # None
        /\ Val(last_call[w]).path = "insert"
        /\ Val(last_call[w]).exc = "IntegrityError"
        /\ session[w] = "open"
        /\ saved_count[w] = 1
        /\ Cardinality(db) = 1

\* the commit of an insert
InsertStep(w) ==
    pc[w] = "write" /\ existing_job[w] = None /\ pc'[w] = "refresh"

\* the call returns the id of the row it wrote
ReturnsWrittenId(w) ==
    (pc[w] = "refresh" /\ pc'[w] = "loop" /\ Val(last_call'[w]).exc = "")
        => Val(last_call'[w]).id = Row(w)["id"]

C9_IdNeverChanges ==
    [][\A r \in db :
          \E q \in db' :
              /\ q["url"] = r["url"]
              /\ q["source_platform"] = r["source_platform"]
              /\ q["id"] = r["id"]]_vars

AllRows(view) == view

\* filter(JobPosting.is_active == True): the rows every query starts from
ActiveRows(view) == {r \in view : r["is_active"] = Some(TRUE)}

\* the (url, source_platform) pairs stored
StoredKeys(view) == {<<r["url"], r["source_platform"]>> : r \in view}

\* C11: no step of the pipeline removes a stored row: through every step,
\* failed and rolled-back writes included, the set of stored
\* (url, source_platform) keys only grows and the number of rows never drops.
C11_KeysOnlyGrow ==
    [][/\ StoredKeys(db) \subseteq StoredKeys(db')
       /\ Cardinality(db') >= Cardinality(db)]_vars

\* two keys are stored and a later update failed, leaving the session
\* without a rollback
C11_Witness ==
    \E w \in Writers :
        /\ Cardinality(StoredKeys(db)) = 2
        /\ last_call[w] # None
        /\ Val(last_call[w]).path = "update"
        /\ Val(last_call[w]).exc \in StorageErrors
        /\ session[w] = "invalid"

\* C12: an upsert by a record without an is_active key leaves is_active of
\* the row it matched as it was; a row that was inactive stays inactive and
\* stays out of the rows queries start from.
C12_RescrapeKeepsFlag ==
    \A w \in Writers :
        (Written(w) /\ PathOf(w) = "update" /\ "is_active" \notin DOMAIN Job(w))
        => /\ Row(w)["is_active"] = Found(w)["is_active"]
           /\ Found(w)["is_active"] = Some(FALSE) => Row(w) \notin ActiveRows(db)

\* an inactive row was scraped again with another title: the row has the
\* new title and is still inactive
C12_Witness ==
    \E w \in Writers :
        /\ Written(w) /\ PathOf(w) = "update"
        /\ "is_active" \notin DOMAIN Job(w)
        /\ Found(w)["is_active"] = Some(FALSE)
        /\ Row(w)["title"] # Found(w)["title"]
        /\ Row(w) \in db
        /\ Row(w)["is_active"] = Some(FALSE)

\* ------------------------------------------------ validate_job_data, alone
\* a text of n characters ch
Rep(ch, n) == [i \in 1..n |-> ch]

\* a key of a mapping: left out, or present with an optional value
Absent == [present |-> FALSE, value |-> None]
Present(o) == [present |-> TRUE, value |-> o]

\* the mapping with the keys that are present
Mapping(choices) ==
    [k \in {c \in DOMAIN choices : choices[c].present} |-> choices[k].value]

TitleChoices ==
    {Absent, Present(None), Present(Some(<<>>)), Present(Some(<<" ", " ">>)),
     Present(Some(<<" ", "D", " ">>)), Present(Some(<<" ", "Q", "A", " ">>)),
     Present(Some(Rep("x", MaxTitleLen))),
     Present(Some(Rep("x", MaxTitleLen + 1)))}

CompanyChoices == {Absent, Present(Some(<<>>)), Present(Some(Acme))}

UrlChoices == {Absent, Present(Some("")), Present(Some("http://x.com/1"))}

SalaryChoices ==
    {Absent, Present(None), Present(Some(MinSalary - 1)), Present(Some(MinSalary)),
     Present(Some(MaxSalary)), Present(Some(MaxSalary + 1))}

DescriptionChoices ==
    {Absent, Present(Some(Rep("x", MaxDescriptionLen))),
     Present(Some(Rep("x", MaxDescriptionLen + 1)))}

\* the records handed to validate_job_data
ValidationInputs ==
    {Mapping([title |-> t, company_name |-> c, url |-> u, salary_min |-> lo,
              salary_max |-> hi, job_description |-> d,
              source_platform |-> Present(Some("Indeed"))]) :
        t \in TitleChoices, c \in CompanyChoices, u \in UrlChoices,
        lo \in SalaryChoices, hi \in {Absent, Present(Some(MaxSalary + 1))},
        d \in DescriptionChoices}

InitValidate ==
    /\ db = {}
    /\ PipelineIdle
    /\ request \in {Some([op |-> "validate", job |-> j]) : j \in ValidationInputs}
    /\ response = None

\* if validate_job_data(job_data): the verdict on the record
ValidateJob ==
    /\ request # None
    /\ Val(request).op = "validate"
    /\ response = None
    /\ response' = Some(validate_job_data(Val(request).job))
    /\ UNCHANGED <<db, pipelineVars, request>>

NextValidate == ValidateJob

SpecValidate == InitValidate /\ [][NextValidate]_vars

\* validate_job_data has answered
Answered == request # None /\ Val(request).op = "validate" /\ response # None
Asked == Val(request).job
Verdict == Val(response)

\* the key is missing, None or empty
Lacks(job, key) ==
    \/ Get(job, key) = None
    \/ Val(job[key]) = (IF key = "url" THEN "" ELSE <<>>)

TrimmedLen(job, key) == Len(Strip(Val(job[key])))

TitleLenOk(job) ==
    /\ ~Lacks(job, "title")
    /\ TrimmedLen(job, "title") >= 2
    /\ TrimmedLen(job, "title") <= 200

SalaryInRange(job, key) ==
    Get(job, key) = None \/ (Val(job[key]) >= 0 /\ Val(job[key]) <= 1000000)

\* everything but title and salary_min is in order
OtherFieldsValid(job) ==
    /\ ~Lacks(job, "company_name")
    /\ ~Lacks(job, "url")
    /\ SalaryInRange(job, "salary_max")
    /\ "job_description" \in DOMAIN job => Len(Val(job["job_description"])) <= 10000

\* C13: a record is accepted only with a trimmed title of 2..200 characters
\* and a salary_min that is absent or in [0, 1,000,000]; with its other
\* fields valid it is accepted exactly then.
C13_TitleAndSalaryBounds ==
    Answered
    => /\ Verdict => (TitleLenOk(Asked) /\ SalaryInRange(Asked, "salary_min"))
       /\ OtherFieldsValid(Asked)
             => (Verdict <=> (TitleLenOk(Asked) /\ SalaryInRange(Asked, "salary_min")))

\* a padded title of two characters with salary_min 1,000,000 was accepted
C13_Witness ==
    /\ Answered /\ Verdict
    /\ Asked["title"] = Some(<<" ", "Q", "A", " ">>)
    /\ Get(Asked, "salary_min") = Some(1000000)

\* C14 as stated: a record that lacks, or has empty, title, company_name or
\* url is rejected.
C14_RequiredFieldsRejected ==
    (Answered /\ \E key \in {"title", "company_name", "url"} : Lacks(Asked, key))
    => ~Verdict

\* C15 as stated: a record whose job_description is longer than 10,000
\* characters is rejected.
C15_LongDescriptionRejected ==
    (/\ Answered
     /\ "job_description" \in DOMAIN Asked
     /\ Len(Val(Asked["job_description"])) > 10000)
    => ~Verdict

\* ------------------------------------------------------------ text matching
UpperCase == <<"A", "B", "C", "D", "E", "F", "G", "H", "I", "J", "K", "L", "M",
               "N", "O", "P", "Q", "R", "S", "T", "U", "V", "W", "X", "Y", "Z">>
LowerCase == <<"a", "b", "c", "d", "e", "f", "g", "h", "i", "j", "k", "l", "m",
               "n", "o", "p", "q", "r", "s", "t", "u", "v", "w", "x", "y", "z">>

LowerChar(ch) ==
    IF \E i \in 1..Len(UpperCase) : UpperCase[i] = ch
    THEN LowerCase[CHOOSE i \in 1..Len(UpperCase) : UpperCase[i] = ch]
    ELSE ch

\* str.lower()
Lower(s) == [i \in 1..Len(s) |-> LowerChar(s[i])]

\* sub in s
Contains(s, sub) ==
    \E i \in 0..(Len(s) - Len(sub)) : SubSeq(s, i + 1, i + Len(sub)) = sub

Min(S) == CHOOSE x \in S : \A y \in S : x <= y

\* ------------------------------------- GlassdoorScraper._get_estimated_salary
\* the base ranges by keyword, in the order of the dict
salary_ranges ==
    <<[keyword |-> <<"i", "n", "t", "e", "r", "n">>, lo |-> 40000, hi |-> 80000],
      [keyword |-> <<"j", "u", "n", "i", "o", "r">>, lo |-> 60000, hi |-> 90000],
      [keyword |-> <<"e", "n", "t", "r", "y">>, lo |-> 65000, hi |-> 95000],
      [keyword |-> <<"s", "o", "f", "t", "w", "a", "r", "e", " ", "e", "n", "g", "i", "n", "e", "e", "r">>, lo |-> 80000, hi |-> 130000],
      [keyword |-> <<"s", "e", "n", "i", "o", "r">>, lo |-> 120000, hi |-> 180000],
      [keyword |-> <<"s", "t", "a", "f", "f">>, lo |-> 160000, hi |-> 220000],
      [keyword |-> <<"p", "r", "i", "n", "c", "i", "p", "a", "l">>, lo |-> 180000, hi |-> 260000],
      [keyword |-> <<"l", "e", "a", "d">>, lo |-> 140000, hi |-> 200000],
      [keyword |-> <<"m", "a", "n", "a", "g", "e", "r">>, lo |-> 130000, hi |-> 190000],
      [keyword |-> <<"s", "e", "n", "i", "o", "r", " ", "m", "a", "n", "a", "g", "e", "r">>, lo |-> 160000, hi |-> 230000],
      [keyword |-> <<"d", "i", "r", "e", "c", "t", "o", "r">>, lo |-> 200000, hi |-> 300000],
      [keyword |-> <<"v", "p">>, lo |-> 250000, hi |-> 400000],
      [keyword |-> <<"c", "t", "o">>, lo |-> 300000, hi |-> 500000],
      [keyword |-> <<"a", "r", "c", "h", "i", "t", "e", "c", "t">>, lo |-> 140000, hi |-> 210000],
      [keyword |-> <<"d", "a", "t", "a", " ", "s", "c", "i", "e", "n", "t", "i", "s", "t">>, lo |-> 90000, hi |-> 160000],
      [keyword |-> <<"p", "r", "o", "d", "u", "c", "t", " ", "m", "a", "n", "a", "g", "e", "r">>, lo |-> 100000, hi |-> 170000],
      [keyword |-> <<"d", "e", "s", "i", "g", "n", "e", "r">>, lo |-> 70000, hi |-> 130000],
      [keyword |-> <<"d", "e", "v", "o", "p", "s">>, lo |-> 90000, hi |-> 150000],
      [keyword |-> <<"s", "e", "c", "u", "r", "i", "t", "y">>, lo |-> 95000, hi |-> 165000],
      [keyword |-> <<"m", "o", "b", "i", "l", "e">>, lo |-> 85000, hi |-> 145000],
      [keyword |-> <<"f", "r", "o", "n", "t", "e", "n", "d">>, lo |-> 75000, hi |-> 135000],
      [keyword |-> <<"b", "a", "c", "k", "e", "n", "d">>, lo |-> 85000, hi |-> 145000],
      [keyword |-> <<"f", "u", "l", "l", "s", "t", "a", "c", "k">>, lo |-> 80000, hi |-> 140000]>>

tier1_companies ==
    {<<"g", "o", "o", "g", "l", "e">>,
     <<"a", "p", "p", "l", "e">>,
     <<"m", "i", "c", "r", "o", "s", "o", "f", "t">>,
     <<"a", "m", "a", "z", "o", "n">>,
     <<"m", "e", "t", "a">>,
     <<"f", "a", "c", "e", "b", "o", "o", "k">>,
     <<"n", "e", "t", "f", "l", "i", "x">>,
     <<"t", "e", "s", "l", "a">>,
     <<"n", "v", "i", "d", "i", "a">>,
     <<"o", "p", "e", "n", "a", "i">>,
     <<"a", "n", "t", "h", "r", "o", "p", "i", "c">>}

tier2_companies ==
    {<<"u", "b", "e", "r">>,
     <<"a", "i", "r", "b", "n", "b">>,
     <<"s", "p", "o", "t", "i", "f", "y">>,
     <<"s", "l", "a", "c", "k">>,
     <<"z", "o", "o", "m">>,
     <<"s", "a", "l", "e", "s", "f", "o", "r", "c", "e">>,
     <<"o", "r", "a", "c", "l", "e">>,
     <<"i", "b", "m">>,
     <<"i", "n", "t", "e", "l">>,
     <<"l", "i", "n", "k", "e", "d", "i", "n">>,
     <<"t", "w", "i", "t", "t", "e", "r">>,
     <<"s", "n", "a", "p">>,
     <<"p", "i", "n", "t", "e", "r", "e", "s", "t">>}

sf_locations ==
    {<<"s", "a", "n", " ", "f", "r", "a", "n", "c", "i", "s", "c", "o">>,
     <<"s", "f">>,
     <<"b", "a", "y", " ", "a", "r", "e", "a">>,
     <<"p", "a", "l", "o", " ", "a", "l", "t", "o">>}

ny_locations ==
    {<<"n", "e", "w", " ", "y", "o", "r", "k">>,
     <<"n", "y", "c">>,
     <<"m", "a", "n", "h", "a", "t", "t", "a", "n">>}

hub_locations ==
    {<<"s", "e", "a", "t", "t", "l", "e">>,
     <<"b", "o", "s", "t", "o", "n">>,
     <<"l", "o", "s", " ", "a", "n", "g", "e", "l", "e", "s">>,
     <<"a", "u", "s", "t", "i", "n">>}

Remote == <<"r", "e", "m", "o", "t", "e">>
UnitedStates == <<"u", "n", "i", "t", "e", "d", " ", "s", "t", "a", "t", "e", "s">>

\* random.uniform(a, b), in hundredths: the two ends of the interval
Uniform(a, b) == {a, b}

\* the base range: the first keyword of salary_ranges found in the title,
\* else that of 'software engineer'
BaseRange(title_lower) ==
    LET hits == {i \in 1..Len(salary_ranges) :
                    Contains(title_lower, salary_ranges[i].keyword)}
    IN  IF hits = {} THEN salary_ranges[4] ELSE salary_ranges[Min(hits)]

\* the company tier multiplier, in hundredths
CompanyMultipliers(company_lower) ==
    IF \E c \in tier1_companies : Contains(company_lower, c) THEN Uniform(130, 160)
    ELSE IF \E c \in tier2_companies : Contains(company_lower, c) THEN Uniform(110, 140)
    ELSE Uniform(90, 120)

\* the location multiplier, in hundredths
LocationMultipliers(location_lower) ==
    IF \E l \in sf_locations : Contains(location_lower, l) THEN Uniform(120, 140)
    ELSE IF \E l \in ny_locations : Contains(location_lower, l) THEN Uniform(115, 135)
    ELSE IF \E l \in hub_locations : Contains(location_lower, l) THEN Uniform(105, 125)
    ELSE IF Contains(location_lower, Remote) THEN Uniform(100, 120)
    ELSE Uniform(85, 110)

\* the 10% variance, in hundredths
Variances == Uniform(90, 110)

\* the random numbers one estimate draws
Draws(job_title, company_name, location) ==
    [multiplier : CompanyMultipliers(Lower(company_name)),
     location_multiplier : LocationMultipliers(Lower(location)),
     variance_min : Variances, variance_max : Variances]

\* int(int(base * multiplier * location_multiplier) * variance); every base
\* is a multiple of 100, so the first division is exact
Scaled(base, multiplier, location_multiplier, variance) ==
    (((((base \div 100) * multiplier) * location_multiplier) \div 100) * variance)
        \div 100

get_estimated_salary(job_title, company_name, location, draw) ==
    LET base == BaseRange(Lower(job_title))
    IN  [salary_min |-> Some(Scaled(base.lo, draw.multiplier,
                                    draw.location_multiplier, draw.variance_min)),
         salary_max |-> Some(Scaled(base.hi, draw.multiplier,
                                    draw.location_multiplier, draw.variance_max)),
         salary_currency |-> Some("USD")]

\* ------------------------------------------- GlassdoorScraper.get_salary_data
\* what the two web approaches find, if anything: no salary card, a card
\* whose text holds no number, a card with a range
PageResults ==
    {None,
     Some([salary_min |-> None, salary_max |-> None,
           salary_currency |-> Some("USD")]),
     Some([salary_min |-> Some(90000), salary_max |-> Some(120000),
           salary_currency |-> Some("USD")])}

\* f"{job_title.lower()}_{company_name.lower()}_{location.lower()}"
CacheKey(job_title, company_name, location) ==
    Lower(job_title) \o <<"_">> \o Lower(company_name) \o <<"_">> \o Lower(location)

Cached(cache, key) == {e \in cache : e.key = key}

\* the cached entry if there is one; else what the web gave, else the
\* estimate
get_salary_data(cache, job_title, company_name, location, page, draw) ==
    LET key == CacheKey(job_title, company_name, location)
    IN  IF Cached(cache, key) # {} THEN (CHOOSE e \in Cached(cache, key) : TRUE).data
        ELSE IF page # None THEN Val(page)
        ELSE get_estimated_salary(job_title, company_name, location, draw)

\* ------------------------------------------------------ enrich_salaries
\* a title, company and location the estimate prices highest
CtoGoogle ==
    [title |-> Some(<<"C", "T", "O">>), company_name |-> Some(<<"G", "o", "o", "g", "l", "e">>),
     location |-> Some(<<"S", "a", "n", " ", "F", "r", "a", "n", "c", "i", "s", "c", "o">>), posted_date |-> Some(1),
     salary_min |-> None, salary_max |-> None, salary_currency |-> None,
     employment_type |-> None, job_description |-> None,
     source_platform |-> Some("Indeed"), url |-> Some("http://x.com/2")]

EnrichPool == {CtoGoogle, ScrapedIndeed, InactiveLinkedIn, RescrapedLinkedIn}

\* the table after update_or_create_job_posting has stored the record
Upserted(view, job) ==
    LET found == FindExisting(view, job)
    IN  IF found = None THEN view \cup {NewRow(job, view, 0)}
        ELSE (view \ {Val(found)})
                 \cup {UpdatedRow(Val(found), SetAttrs(Val(found), job), 0)}

RECURSIVE UpsertedAll(_)
UpsertedAll(jobs) ==
    IF jobs = <<>> THEN {}
    ELSE Upserted(UpsertedAll(SubSeq(jobs, 1, Len(jobs) - 1)), jobs[Len(jobs)])

\* the tables the pipeline leaves after up to MaxStored valid records
EnrichStores ==
    {UpsertedAll(jobs) :
        jobs \in UNION {[1..n -> EnrichPool] : n \in 0..MaxStored}}

\* --limit: one job, or the default
DefaultEnrichLimit == 100
EnrichLimits == {1, DefaultEnrichLimit}

InitEnrich ==
    /\ db \in EnrichStores
    /\ PipelineIdle
    /\ request = None
    /\ response = None

\* the jobs query: active rows, without a salary_min unless --force;
\* .limit(limit).all() in no stated order
EnrichStart ==
    /\ request = None
    /\ \E force \in BOOLEAN, limit \in EnrichLimits :
          LET candidates == IF force THEN ActiveRows(db)
                            ELSE {r \in ActiveRows(db) : r["salary_min"] = None}
              n == IF limit < Cardinality(candidates)
                   THEN limit ELSE Cardinality(candidates)
          IN  \E jobs \in SUBSET candidates :
                 /\ Cardinality(jobs) = n
                 /\ request' = Some([op |-> "enrich", todo |-> jobs, dirty |-> {},
                                     cache |-> {}, enriched_count |-> 0])
                 /\ response' = IF jobs = {}
                                THEN Some([exit |-> 0, enriched_count |-> 0])
                                ELSE None
    /\ UNCHANGED <<db, pipelineVars>>

\* one turn of the loop: get_salary_data, and the three assignments when
\* the data has a salary_min
EnrichJob ==
    /\ request # None
    /\ Val(request).op = "enrich"
    /\ response = None
    /\ \E job \in Val(request).todo, page \in PageResults :
          LET req == Val(request)
              title == Val(job["title"])
              company == Val(job["company_name"])
              location == IF job["location"] = None \/ job["location"] = Some(<<>>)
                          THEN UnitedStates ELSE Val(job["location"])
          IN  \E draw \in Draws(title, company, location) :
                 LET salary_data == get_salary_data(req.cache, title, company,
                                                    location, page, draw)
                     key == CacheKey(title, company, location)
                     hit == salary_data["salary_min"] # None
                               /\ Val(salary_data["salary_min"]) # 0
                     new == [job EXCEPT !["salary_min"] = salary_data["salary_min"],
                                        !["salary_max"] = salary_data["salary_max"],
                                        !["salary_currency"] =
                                            salary_data["salary_currency"]]
                 IN  request' = Some(
                        [req EXCEPT
                            !.todo = @ \ {job},
                            !.cache = @ \cup {[key |-> key, data |-> salary_data]},
                            !.dirty = IF hit THEN @ \cup {<<job, new>>} ELSE @,
                            !.enriched_count = IF hit THEN @ + 1 ELSE @])
    /\ UNCHANGED <<db, pipelineVars, response>>

\* session.commit() after the loop: every changed job is written in one
\* transaction; a failing commit ends the command with exit code 1 and
\* nothing written
EnrichCommit ==
    /\ request # None
    /\ Val(request).op = "enrich"
    /\ response = None
    /\ Val(request).todo = {}
    /\ \E fault \in BOOLEAN :
          IF fault
          THEN /\ response' = Some([exit |-> 1, enriched_count |-> 0])
               /\ UNCHANGED db
          ELSE /\ db' = (db \ {p[1] : p \in Val(request).dirty})
                           \cup {UpdatedRow(p[1], p[2], now) : p \in Val(request).dirty}
               /\ response' = Some([exit |-> 0,
                                    enriched_count |-> Val(request).enriched_count])
    /\ UNCHANGED <<pipelineVars, request>>

NextEnrich == EnrichStart \/ EnrichJob \/ EnrichCommit

SpecEnrich == InitEnrich /\ [][NextEnrich]_vars

\* C16 as stated: in every state the write paths reach, every stored
\* salary_min and salary_max is absent or lies in [0, 1,000,000].
C16_StoredSalariesBounded ==
    \A r \in db : \A c \in {"salary_min", "salary_max"} :
        r[c] = None \/ (Val(r[c]) >= 0 /\ Val(r[c]) <= 1000000)

\* ------------------------------------------------- JobSearcher.search_jobs
\* the characters of the platform and employment-type names of the model
Chars(name) ==
    CASE name = "Indeed" -> <<"I", "n", "d", "e", "e", "d">>
      [] name = "LinkedIn" -> <<"L", "i", "n", "k", "e", "d", "I", "n">>
      [] name = "Full-time" -> <<"F", "u", "l", "l", "-", "t", "i", "m", "e">>
      [] name = "USD" -> <<"U", "S", "D">>

\* the characters of a column value, NULL for NULL
ColumnText(row, column) ==
    IF row[column] = None THEN None
    ELSE IF column \in {"source_platform", "employment_type", "salary_currency"}
    THEN Some(Chars(Val(row[column])))
    ELSE row[column]

\* SQL LIKE: % is any run of characters, _ is any one character
RECURSIVE Like(_, _)
Like(s, pattern) ==
    IF pattern = <<>> THEN s = <<>>
    ELSE IF Head(pattern) = "%"
    THEN Like(s, Tail(pattern)) \/ (s # <<>> /\ Like(Tail(s), pattern))
    ELSE /\ s # <<>>
         /\ (Head(pattern) = "_" \/ Head(pattern) = Head(s))
         /\ Like(Tail(s), Tail(pattern))

\* column.ilike(f'%{text}%'): never true of NULL
ILike(value, text) ==
    /\ value # None
    /\ Like(Lower(Val(value)), Lower(<<"%">> \o text \o <<"%">>))

\* Python truth of an optional number: None and 0 are false
TruthyNumber(o) == o # None /\ Val(o) # 0

\* a comparison with NULL is not true
AtLeast(value, bound) == value # None /\ Val(value) >= bound
AtMost(value, bound) == value # None /\ Val(value) <= bound

\* lines 52-95: the rows the filters keep
Filtered(view, args, today) ==
    {r \in ActiveRows(view) :
        /\ TruthyText(args.title) => ILike(ColumnText(r, "title"), Val(args.title))
        /\ TruthyText(args.location)
              => ILike(ColumnText(r, "location"), Val(args.location))
        /\ TruthyText(args.company)
              => ILike(ColumnText(r, "company_name"), Val(args.company))
        /\ TruthyText(args.platform)
              => ILike(ColumnText(r, "source_platform"), Val(args.platform))
        /\ TruthyText(args.employment_type)
              => ILike(ColumnText(r, "employment_type"), Val(args.employment_type))
        /\ TruthyNumber(args.min_salary)
              => (\/ AtLeast(r["salary_min"], Val(args.min_salary))
                  \/ AtLeast(r["salary_max"], Val(args.min_salary)))
        /\ TruthyNumber(args.max_salary)
              => (/\ AtMost(r["salary_min"], Val(args.max_salary))
                  /\ r["salary_min"] # None)
        /\ TruthyText(args.keywords)
              => (\/ ILike(ColumnText(r, "job_description"), Val(args.keywords))
                  \/ ILike(ColumnText(r, "title"), Val(args.keywords)))
        /\ TruthyNumber(args.days_ago)
              => AtLeast(r["posted_date"], today - Val(args.days_ago))}

\* desc(posted_date): a later date first; the engine puts the NULLs all
\* first or all last
Before(r1, r2, nulls_first) ==
    IF r1["posted_date"] = None /\ r2["posted_date"] = None THEN TRUE
    ELSE IF r1["posted_date"] = None THEN nulls_first
    ELSE IF r2["posted_date"] = None THEN ~nulls_first
    ELSE Val(r1["posted_date"]) >= Val(r2["posted_date"])

\* the rows in any order
AnyOrder(rows, nulls_first) ==
    {s \in [1..Cardinality(rows) -> rows] : \A r \in rows : \E i \in DOMAIN s : s[i] = r}
OrderedBy(rows, nulls_first) ==
    {s \in [1..Cardinality(rows) -> rows] :
        /\ \A r \in rows : \E i \in DOMAIN s : s[i] = r
        /\ \A i, j \in DOMAIN s : i < j => Before(s[i], s[j], nulls_first)}

\* .limit(limit): the first rows
Limited(s, limit) == SubSeq(s, 1, IF limit < Len(s) THEN limit ELSE Len(s))

\* the lists search_jobs may return
search_jobs(view, args, today) ==
    {Limited(s, args.limit) :
        s \in UNION {OrderedBy(Filtered(view, args, today), nulls_first) :
                        nulls_first \in BOOLEAN}}

\* --------------------------------------------------- the stores searched
PythonDeveloper == <<"P", "y", "t", "h", "o", "n", " ", "D", "e", "v", "e", "l", "o", "p", "e", "r">>
JavaDeveloper == <<"J", "a", "v", "a", " ", "D", "e", "v", "e", "l", "o", "p", "e", "r">>

PythonNYC ==
    [title |-> Some(PythonDeveloper), company_name |-> Some(Acme),
     location |-> Some(NYC), posted_date |-> Some(5),
     salary_min |-> Some(100000), salary_max |-> Some(120000),
     salary_currency |-> Some("USD"), employment_type |-> Some("Full-time"),
     job_description |-> Some(<<"P", "y", "t", "h", "o", "n", " ", "p", "y", "t", "h", "o", "n", " ", "P", "Y", "T", "H", "O", "N", " ", "s", "q", "l">>),
     source_platform |-> Some("Indeed"), url |-> Some("http://x.com/1")]

JavaNYC ==
    [title |-> Some(JavaDeveloper), company_name |-> Some(Acme),
     location |-> Some(NYC), posted_date |-> None,
     salary_min |-> None, salary_max |-> None,
     salary_currency |-> None, employment_type |-> None,
     job_description |-> None,
     source_platform |-> Some("LinkedIn"), url |-> Some("http://x.com/1")]

\* a listing that was deactivated
InactivePython ==
    [title |-> Some(PythonDeveloper), company_name |-> Some(Acme),
     location |-> Some(NYC), posted_date |-> Some(9),
     salary_min |-> Some(50000), salary_max |-> None,
     job_description |-> Some(<<"p", "y", "t", "h", "o", "n">>), is_active |-> Some(FALSE),
     source_platform |-> Some("Indeed"), url |-> Some("http://x.com/2")]

JavaRemote ==
    [title |-> Some(JavaDeveloper), company_name |-> Some(Acme),
     location |-> None, posted_date |-> Some(9),
     salary_min |-> Some(150000), salary_max |-> Some(150000),
     job_description |-> Some(<<"j", "a", "v", "a">>),
     source_platform |-> Some("LinkedIn"), url |-> Some("http://x.com/2")]

SearchPool == {PythonNYC, JavaNYC, InactivePython, JavaRemote}

\* the tables the pipeline leaves after up to MaxStored of these records
SearchStores ==
    {UpsertedAll(jobs) :
        jobs \in UNION {[1..n -> SearchPool] : n \in 0..MaxStored}}

\* datetime.now(), in days
Today == 10

DefaultSearchLimit == 50

Filters ==
    {"title", "location", "company", "platform", "employment_type",
     "min_salary", "max_salary", "keywords", "days_ago"}

FilterChoices(filter) ==
    CASE filter = "title" -> {None, Some(<<"p", "y", "t", "h", "o", "n">>), Some(<<"j", "_", "v", "a">>)}
      [] filter = "location" -> {None, Some(<<"N", "Y", "C">>)}
      [] filter = "company" -> {None, Some(<<"a", "c", "m", "e">>)}
      [] filter = "platform" -> {None, Some(<<"i", "n", "d", "e", "e", "d">>)}
      [] filter = "employment_type" -> {None, Some(<<"f", "u", "l", "l">>)}
      [] filter = "min_salary" -> {None, Some(0), Some(110000)}
      [] filter = "max_salary" -> {None, Some(0), Some(100000)}
      [] filter = "keywords" -> {None, Some(<<"p", "y", "t", "h", "o", "n">>)}
      [] filter = "days_ago" -> {None, Some(0), Some(7)}

\* the filters a call supplies
Supplied(args) == {f \in Filters : args[f] # None}

\* the calls: up to two filters supplied, and a limit
SearchArgs ==
    {a \in [title : FilterChoices("title"), location : FilterChoices("location"),
            company : FilterChoices("company"), platform : FilterChoices("platform"),
            employment_type : FilterChoices("employment_type"),
            min_salary : FilterChoices("min_salary"),
            max_salary : FilterChoices("max_salary"),
            keywords : FilterChoices("keywords"),
            days_ago : FilterChoices("days_ago"),
            limit : {0, 1, DefaultSearchLimit}] :
        Cardinality(Supplied(a)) <= 2}

InitSearch ==
    /\ db \in SearchStores
    /\ PipelineIdle
    /\ request \in {Some([op |-> "search", args |-> a, today |-> Today]) :
                       a \in SearchArgs}
                    \cup {Some([op |-> "summary", today |-> Today]),
                          Some([op |-> "skills"])}
    /\ response = None

\* search_jobs runs: the list it returns, or [] when the query raised
SearchJobs ==
    /\ request # None
    /\ Val(request).op = "search"
    /\ response = None
    /\ \E fault \in BOOLEAN :
          IF fault
          THEN response' = Some([results |-> <<>>, error |-> TRUE])
          ELSE \E results \in search_jobs(db, Val(request).args, Val(request).today) :
                  response' = Some([results |-> results, error |-> FALSE])
    /\ UNCHANGED <<db, pipelineVars, request>>

\* ----------------------------------------------------------- JobAnalyzer
TopTitles == 10
TopSkills == 15

\* GROUP BY column with count(id), over the rows given
GroupCounts(rows, column) ==
    [v \in {r[column] : r \in rows} |-> Cardinality({r \in rows : r[column] = v})]

\* ORDER BY count DESC LIMIT n: the n groups kept, any of the tied ones
Top(counts, n) ==
    {[v \in kept |-> counts[v]] :
        kept \in {S \in SUBSET (DOMAIN counts) :
                     /\ Cardinality(S) = (IF Cardinality(DOMAIN counts) < n
                                          THEN Cardinality(DOMAIN counts) ELSE n)
                     /\ \A v \in S : \A u \in (DOMAIN counts) \ S :
                           counts[v] >= counts[u]}}

RECURSIVE SumOf(_, _)
SumOf(rows, column) ==
    IF rows = {} THEN 0
    ELSE LET r == CHOOSE x \in rows : TRUE
         IN  Val(r[column]) + SumOf(rows \ {r}, column)

\* sorted(salaries)[len(salaries) // 2]
MedianOf(rows, column) ==
    LET n == Cardinality(rows)
        sorted == CHOOSE s \in [1..n -> rows] :
                     /\ \A r \in rows : \E i \in 1..n : s[i] = r
                     /\ \A i, j \in 1..n :
                           i < j => Val(s[i][column]) <= Val(s[j][column])
    IN  Val(sorted[(n \div 2) + 1][column])

\* _calculate_salary_stats; the average is kept as the sum and the count
calculate_salary_stats(view) ==
    LET jobs_with_salary == {r \in ActiveRows(view) : r["salary_min"] # None}
        salaries == {r \in jobs_with_salary : TruthyNumber(r["salary_min"])}
        ranged == {r \in salaries : /\ TruthyNumber(r["salary_max"])
                                           /\ r["salary_max"] # r["salary_min"]}
    IN  IF jobs_with_salary = {}
        THEN [error |-> TRUE, reason |-> "No salary data available"]
        ELSE IF salaries = {}
        THEN [error |-> TRUE, reason |-> "No valid salary data found"]
        ELSE [error |-> FALSE,
              salary_sum |-> SumOf(salaries, "salary_min"),
              salary_count |-> Cardinality(salaries),
              median_salary |-> MedianOf(salaries, "salary_min"),
              min_salary |-> Min({Val(r["salary_min"]) : r \in salaries}),
              max_salary |-> Max({Val(r["salary_min"]) : r \in salaries}),
              jobs_with_salary |-> Cardinality(jobs_with_salary),
              salary_ranges |-> Cardinality(ranged)]

RecentDays == 7

\* the dicts generate_summary_stats may return
generate_summary_stats(view, today) ==
    LET active == ActiveRows(view)
        located == {r \in active : r["location"] # None}
        typed == {r \in active : r["employment_type"] # None}
    IN  IF active = {} THEN {[error |-> TRUE]}
        ELSE {[error |-> FALSE,
               total_jobs |-> Cardinality(active),
               top_titles |-> titles,
               top_locations |-> locations,
               top_companies |-> companies,
               platform_distribution |-> GroupCounts(active, "source_platform"),
               employment_types |-> GroupCounts(typed, "employment_type"),
               salary_stats |-> calculate_salary_stats(view),
               recent_jobs_7_days |->
                   Cardinality({r \in active :
                                   AtLeast(r["posted_date"], today - RecentDays)})] :
                titles \in Top(GroupCounts(active, "title"), TopTitles),
                locations \in Top(GroupCounts(located, "location"), TopTitles),
                companies \in Top(GroupCounts(active, "company_name"), TopTitles)}

tech_skills ==
    {<<"p", "y", "t", "h", "o", "n">>,
     <<"j", "a", "v", "a", "s", "c", "r", "i", "p", "t">>,
     <<"j", "a", "v", "a">>,
     <<"r", "e", "a", "c", "t">>,
     <<"n", "o", "d", "e", ".", "j", "s">>,
     <<"s", "q", "l">>,
     <<"a", "w", "s">>,
     <<"d", "o", "c", "k", "e", "r">>,
     <<"k", "u", "b", "e", "r", "n", "e", "t", "e", "s">>,
     <<"g", "i", "t">>,
     <<"l", "i", "n", "u", "x">>,
     <<"t", "y", "p", "e", "s", "c", "r", "i", "p", "t">>,
     <<"p", "o", "s", "t", "g", "r", "e", "s", "q", "l">>,
     <<"m", "o", "n", "g", "o", "d", "b">>,
     <<"r", "e", "d", "i", "s">>,
     <<"e", "l", "a", "s", "t", "i", "c", "s", "e", "a", "r", "c", "h">>,
     <<"k", "a", "f", "k", "a">>,
     <<"m", "i", "c", "r", "o", "s", "e", "r", "v", "i", "c", "e", "s">>,
     <<"r", "e", "s", "t", " ", "a", "p", "i">>,
     <<"g", "r", "a", "p", "h", "q", "l">>,
     <<"m", "a", "c", "h", "i", "n", "e", " ", "l", "e", "a", "r", "n", "i", "n", "g">>,
     <<"d", "a", "t", "a", " ", "s", "c", "i", "e", "n", "c", "e">>,
     <<"d", "e", "v", "o", "p", "s">>,
     <<"c", "i", "/", "c", "d">>,
     <<"a", "g", "i", "l", "e">>,
     <<"s", "c", "r", "u", "m">>}

\* the places where sub occurs in s
Occurrences(s, sub) ==
    {i \in 0..(Len(s) - Len(sub)) : SubSeq(s, i + 1, i + Len(sub)) = sub}

RECURSIVE SkillCountPerOccurrence(_, _)
SkillCountPerOccurrence(jobs, skill) ==
    IF jobs = {} THEN 0
    ELSE LET r == CHOOSE x \in jobs : TRUE
         IN  Cardinality(Occurrences(Lower(Val(r["job_description"])), Lower(skill)))
                 + SkillCountPerOccurrence(jobs \ {r}, skill)

\* the loop over jobs: skill_counts[skill] += 1 when the skill is in the
\* lowered description
RECURSIVE SkillCount(_, _)
SkillCount(jobs, skill) ==
    IF jobs = {} THEN 0
    ELSE LET r == CHOOSE x \in jobs : TRUE
         IN  (IF Contains(Lower(Val(r["job_description"])), Lower(skill))
              THEN 1 ELSE 0)
                 + SkillCount(jobs \ {r}, skill)

\* the dicts get_skills_analysis may return
get_skills_analysis(view) ==
    LET jobs == {r \in ActiveRows(view) : r["job_description"] # None}
        skill_counts == [skill \in {s \in tech_skills : SkillCount(jobs, s) > 0} |->
                            SkillCount(jobs, skill)]
    IN  IF jobs = {} THEN {[error |-> TRUE]}
        ELSE {[error |-> FALSE,
               top_skills |-> top,
               total_jobs_analyzed |-> Cardinality(jobs),
               skills_searched |-> Cardinality(tech_skills)] :
                top \in Top(skill_counts, TopSkills)}

\* generate_summary_stats runs
SummaryStats ==
    /\ request # None
    /\ Val(request).op = "summary"
    /\ response = None
    /\ \E fault \in BOOLEAN :
          IF fault THEN response' = Some([error |-> TRUE])
          ELSE \E stats \in generate_summary_stats(db, Val(request).today) :
                  response' = Some(stats)
    /\ UNCHANGED <<db, pipelineVars, request>>

\* get_skills_analysis runs
SkillsAnalysis ==
    /\ request # None
    /\ Val(request).op = "skills"
    /\ response = None
    /\ \E fault \in BOOLEAN :
          IF fault THEN response' = Some([error |-> TRUE])
          ELSE \E analysis \in get_skills_analysis(db) :
                  response' = Some(analysis)
    /\ UNCHANGED <<db, pipelineVars, request>>

NextSearch == SearchJobs \/ SummaryStats \/ SkillsAnalysis

SpecSearch == InitSearch /\ [][NextSearch]_vars

\* --------------------------------------------------- search and analytics
Answer(op) == response # None /\ Val(request).op = op
Results == Val(response).results
Args == Val(request).args

\* the stored rows whose flag is true, and how many of them a test keeps
Live == {r \in db : r["is_active"] = Some(TRUE)}
LiveWith(column, value) == Cardinality({r \in Live : r[column] = value})

C19_MaxSalaryBounds ==
    (Answer("search") /\ Args.max_salary # None /\ Val(Args.max_salary) >= 0) =>
        \A i \in DOMAIN Results :
            /\ Results[i]["salary_min"] # None
            /\ Val(Results[i]["salary_min"]) <= Val(Args.max_salary)

Mentions(r, column, text) ==
    /\ r[column] # None
    /\ Contains(Lower(Val(ColumnText(r, column))), Lower(text))

\* the column a text filter is matched against
FilterColumn(filter) ==
    CASE filter = "title" -> "title"
      [] filter = "location" -> "location"
      [] filter = "company" -> "company_name"
      [] filter = "platform" -> "source_platform"
      [] filter = "employment_type" -> "employment_type"

\* what a supplied filter asks of a record
Satisfies(r, filter, args, today) ==
    CASE filter = "min_salary" ->
            \/ AtLeast(r["salary_min"], Val(args.min_salary))
            \/ AtLeast(r["salary_max"], Val(args.min_salary))
      [] filter = "max_salary" -> AtMost(r["salary_min"], Val(args.max_salary))
      [] filter = "keywords" ->
            \/ Mentions(r, "job_description", Val(args.keywords))
            \/ Mentions(r, "title", Val(args.keywords))
      [] filter = "days_ago" ->
            AtLeast(r["posted_date"], today - Val(args.days_ago))
      [] OTHER -> Mentions(r, FilterColumn(filter), Val(args[filter]))

\* the active records that satisfy every supplied filter
Wanted ==
    {r \in Live :
        \A filter \in Supplied(Args) :
            Satisfies(r, filter, Args, Val(request).today)}

\* C18 as stated: every record search_jobs returns satisfies every supplied
\* filter, and when fewer than limit active records satisfy them all the
\* call returns exactly those; with a Python Developer and a Java Developer
\* stored, both in NYC, title "python" and location "NYC" return exactly
\* the first.
C18_FiltersConjunctive ==
    (Answer("search") /\ ~Val(response).error) =>
        /\ \A i \in DOMAIN Results : Results[i] \in Wanted
        /\ Cardinality(Wanted) < Args.limit
              => {Results[i] : i \in DOMAIN Results} = Wanted
        /\ (/\ db = UpsertedAll(<<PythonNYC, JavaNYC>>)
            /\ Supplied(Args) = {"title", "location"}
            /\ Args.title = Some(<<"p", "y", "t", "h", "o", "n">>)
            /\ Args.location = Some(<<"N", "Y", "C">>)
            /\ Args.limit = DefaultSearchLimit)
              => Results = <<CHOOSE r \in db : r["title"] = Some(PythonDeveloper)>>

\* ------------------------------------------ the tables salary stats read
MaxSample == 4

Url(i) ==
    CASE i = 1 -> "http://x.com/1" [] i = 2 -> "http://x.com/2"
      [] i = 3 -> "http://x.com/3" [] i = 4 -> "http://x.com/4"
      [] OTHER -> "http://x.com/5"

\* the salary_min of a stored listing: none, zero, or one of the amounts
SalaryLevels == {None, Some(0), Some(50000), Some(70000), Some(90000), Some(120000)}

Listing(i, salary) ==
    [title |-> Some(Dev), company_name |-> Some(Acme), salary_min |-> salary,
     source_platform |-> Some("Indeed"), url |-> Some(Url(i))]

\* a deactivated listing with a salary
Delisted(i) ==
    [title |-> Some(Dev), company_name |-> Some(Acme), salary_min |-> Some(10000),
     is_active |-> Some(FALSE),
     source_platform |-> Some("Indeed"), url |-> Some(Url(i))]

\* the tables the pipeline leaves after up to MaxSample listings
SalaryStores ==
    {UpsertedAll(jobs) :
        jobs \in UNION {{j \in [1..n -> {Listing(i, s) : i \in 1..n, s \in SalaryLevels}
                                          \cup {Delisted(i) : i \in 1..n}] :
                            \A i \in 1..n : j[i]["url"] = Some(Url(i))} :
                        n \in 0..MaxSample}}

InitSalary ==
    /\ db \in SalaryStores
    /\ PipelineIdle
    /\ request = Some([op |-> "salary"])
    /\ response = None

\* _calculate_salary_stats runs
SalaryStats ==
    /\ request # None
    /\ Val(request).op = "salary"
    /\ response = None
    /\ \E fault \in BOOLEAN :
          response' = Some(IF fault THEN [error |-> TRUE, reason |-> "Error"]
                           ELSE calculate_salary_stats(db))
    /\ UNCHANGED <<db, pipelineVars, request>>

NextSalary == SalaryStats

SpecSalary == InitSalary /\ [][NextSalary]_vars

\* the query raised
Raised == Val(response).error /\ Val(response).reason = "Error"

\* the rows whose salary_min is in the sample, and its size
Sample == {r \in Live : r["salary_min"] # None}
Below(v) == Cardinality({r \in Sample : Val(r["salary_min"]) < v})
UpTo(v) == Cardinality({r \in Sample : Val(r["salary_min"]) <= v})

\* the element at index k of the ascending-sorted sample
ElementAt(k) ==
    CHOOSE v \in {Val(r["salary_min"]) : r \in Sample} : Below(v) <= k /\ k < UpTo(v)

\* C21 as stated: for every non-empty sample of n salary_min values of active
\* records the median_salary reported is the element at index floor(n/2) of
\* the ascending-sorted sample; for 50000, 70000, 90000, 120000 it is 90000.
C21_MedianIsUpperMiddle ==
    (Answer("salary") /\ ~Raised /\ Sample # {}) =>
        /\ ~Val(response).error
        /\ Val(response).median_salary = ElementAt(Cardinality(Sample) \div 2)
        /\ (/\ Cardinality(Sample) = 4
            /\ {Val(r["salary_min"]) : r \in Sample} = {50000, 70000, 90000, 120000})
              => Val(response).median_salary = 90000

\* the active records with a description, and those that mention a keyword
Described == {r \in Live : r["job_description"] # None}
Mentioning(skill) ==
    {r \in Described : Contains(Lower(Val(r["job_description"])), skill)}

\* C22: the count get_skills_analysis reports for a vocabulary keyword is the
\* number of distinct active records whose description contains the keyword,
\* whatever the letter case: a record adds at most 1 however often the
\* keyword occurs in it, so no count exceeds total_jobs_analyzed.
C22_OneCountPerRecord ==
    (Answer("skills") /\ ~Val(response).error) =>
        LET analysis == Val(response)
        IN  /\ DOMAIN analysis.top_skills \subseteq tech_skills
            /\ \A skill \in DOMAIN analysis.top_skills :
                  /\ analysis.top_skills[skill] = Cardinality(Mentioning(skill))
                  /\ analysis.top_skills[skill] <= analysis.total_jobs_analyzed
            /\ \A skill \in tech_skills :
                  (/\ Mentioning(skill) # {}
                   /\ Cardinality({k \in tech_skills : Mentioning(k) # {}}) <= TopSkills)
                      => skill \in DOMAIN analysis.top_skills

\* a description that has python three times counted once
C22_Witness ==
    /\ Answer("skills")
    /\ ~Val(response).error
    /\ \E r \in Described :
          Cardinality(Occurrences(Lower(Val(r["job_description"])), <<"p", "y", "t", "h", "o", "n">>)) = 3
    /\ Val(response).top_skills[<<"p", "y", "t", "h", "o", "n">>] = 1

\* the list search_jobs hands back to its caller
Returned == Val(response).results

\* C23 as stated: a storage failure during search_jobs reaches the caller as
\* a result that differs from the result of a successful search that matches
\* no record, which is the empty list.
C23_FailureDiffersFromNoMatch ==
    (Answer("search") /\ Val(response).error) => Returned # <<>>

\* ------------------------------------------------- two concurrent writers
\* two scraping runs, each with its own session
RaceWriters == {"w1", "w2"}

\* Each run has validated a record for http://x.com/1 on Indeed and is about
\* to call update_or_create_job_posting; no row has that key yet.
InitRace ==
    /\ db \in {{}, UpsertedAll(<<InactiveLinkedIn>>)}
    /\ now = 0
    /\ faults = 0
    /\ pc = [w \in RaceWriters |-> "query"]
    /\ session = [w \in RaceWriters |-> "open"]
    /\ nrec = [w \in RaceWriters |-> 0]
    /\ idx = [w \in RaceWriters |-> 1]
    /\ job_data \in [RaceWriters -> {Some(ScrapedIndeed), Some(RescrapedIndeed)}]
    /\ existing_job = [w \in RaceWriters |-> None]
    /\ job_posting = [w \in RaceWriters |-> None]
    /\ saved_count = [w \in RaceWriters |-> 0]
    /\ invalid = [w \in RaceWriters |-> 0]
    /\ errors = [w \in RaceWriters |-> 0]
    /\ committed = [w \in RaceWriters |-> 0]
    /\ last_call = [w \in RaceWriters |-> None]
    /\ request = None
    /\ response = None

NextRace ==
    \E w \in RaceWriters :
        \/ Lookup(w)
        \/ Write(w)
        \/ Refresh(w)
        \/ SaveJobsReturn(w)

SpecRace == InitRace /\ [][NextRace]_vars

\* the call of a writer has returned or raised
CallOver(w) == last_call[w] # None
Outcome(w) == Val(last_call[w])

\* C24: two writers upsert the same (url, source_platform), not stored yet,
\* and the storage does not fail otherwise.  When both calls are over the
\* table has exactly one row for the key; and if both looked the key up
\* before either committed, one insert committed and the other call raised
\* the uniqueness conflict, without writing the row as an update.
C24_RaceLeavesOneRow ==
    (faults = 0 /\ \A w \in RaceWriters : CallOver(w)) =>
        /\ Cardinality(RowsFor(ScrapedIndeed)) = 1
        /\ (\A w \in RaceWriters : Outcome(w).path = "insert") =>
              \E winner, loser \in RaceWriters :
                  /\ winner # loser
                  /\ Outcome(winner).exc = ""
                  /\ committed[winner] = 1
                  /\ Outcome(loser).exc = "IntegrityError"
                  /\ committed[loser] = 0
                  /\ \A r \in RowsFor(ScrapedIndeed) :
                        /\ Outcome(winner).id = r["id"]
                        /\ Carries(r, Outcome(winner).job)

\* both writers found no row, with different titles in hand, and both
\* calls are over
C24_Witness ==
    /\ faults = 0
    /\ \A w \in RaceWriters : CallOver(w) /\ Outcome(w).path = "insert"
    /\ Outcome("w1").job # Outcome("w2").job

\* the step in which the call of w raises
RaisesNow(w) ==
    /\ pc[w] \in {"query", "write", "refresh"}
    /\ pc'[w] = "loop"
    /\ last_call'[w] # None
    /\ Val(last_call'[w]).exc # ""

\* C25 as stated: when update_or_create_job_posting raises, at the lookup,
\* the construction, the commit or the refresh, the committed table is what
\* it was before the call: the raising step changes no row, and a call that
\* raises at the refresh has committed no new row and no changed row.
C25_RaisedCallStoredNothing ==
    [][\A w \in Writers :
          RaisesNow(w) =>
              /\ db' = db
              /\ pc[w] = "refresh" => job_posting[w] = existing_job[w]]_vars

\* -------------------------------------------------------------- scrape_all
\* the platforms in the order of the command
Platforms == <<"Indeed", "Company Sites", "RemoteOK", "LinkedIn">>

\* jobs one scraper returns at most
MaxScraped == 2

\* the page of the i-th job of a platform
PlatformUrl(platform, i) ==
    CASE platform = "Indeed" -> Url(i)
      [] platform = "Company Sites" ->
            (CASE i = 1 -> "http://c.com/1" [] i = 2 -> "http://c.com/2"
               [] OTHER -> "http://c.com/3")
      [] platform = "RemoteOK" ->
            (CASE i = 1 -> "http://r.com/1" [] i = 2 -> "http://r.com/2"
               [] OTHER -> "http://r.com/3")
      [] platform = "LinkedIn" ->
            (CASE i = 1 -> "http://l.com/1" [] i = 2 -> "http://l.com/2"
               [] OTHER -> "http://l.com/3")

\* the i-th job a scraper found
ScrapedJob(platform, i) ==
    [title |-> Some(Dev), company_name |-> Some(Acme), location |-> Some(NYC),
     source_platform |-> Some(platform), url |-> Some(PlatformUrl(platform, i))]

\* the table after the jobs numbered in `stored` are upserted in turn
RECURSIVE SavedInto(_, _, _)
SavedInto(view, platform, stored) ==
    IF stored = {} THEN view
    ELSE LET i == Min(stored)
         IN  SavedInto(Upserted(view, ScrapedJob(platform, i)), platform,
                       stored \ {i})

\* the position after a platform, whether it failed or not
AfterPlatformAbort(at, failed) == IF failed THEN Len(Platforms) + 1 ELSE at + 1
AfterPlatform(at, failed) == at + 1

\* the run so far: the platform in turn, total_jobs_saved, the saved_count of
\* each platform tried (None when its try block raised) and the exit code
Run == Val(response)

InitScrape ==
    /\ db = {}
    /\ PipelineIdle
    /\ request \in {Some([op |-> "scrape_all", include_linkedin |-> l,
                          enrich_salaries |-> e]) : l, e \in BOOLEAN}
    /\ response = Some([at |-> 0, total_jobs_saved |-> 0, saved |-> <<>>,
                        exit |-> None])

\* lines 93-97: init_db(), or Exit(1)
ScrapeInitDb ==
    /\ Val(request).op = "scrape_all"
    /\ Run.at = 0
    /\ Run.exit = None
    /\ \E fault \in BOOLEAN :
          response' = Some(IF fault THEN [Run EXCEPT !.exit = Some(1)]
                           ELSE [Run EXCEPT !.at = 1])
    /\ UNCHANGED <<db, pipelineVars, request>>

\* lines 99-142: one try block.  The scraper raises, or returns a list;
\* _save_jobs_to_db raises (no session) or stores those of the jobs whose
\* upsert does not raise and returns their number.  LinkedIn is skipped
\* when not included.
ScrapePlatform ==
    /\ Val(request).op = "scrape_all"
    /\ Run.exit = None
    /\ Run.at \in 1..Len(Platforms)
    /\ LET platform == Platforms[Run.at]
       IN  IF platform = "LinkedIn" /\ ~Val(request).include_linkedin
           THEN /\ response' = Some([Run EXCEPT !.at = @ + 1])
                /\ db' = db
           ELSE \E raised \in BOOLEAN, n \in 0..MaxScraped :
                   IF raised
                   THEN /\ response' =
                              Some([Run EXCEPT !.at = AfterPlatform(@, TRUE),
                                               !.saved = Append(@, None)])
                        /\ db' = db
                   ELSE \E stored \in SUBSET (1..n) :
                           /\ db' = SavedInto(db, platform, stored)
                           /\ response' =
                                 Some([Run EXCEPT
                                    !.at = AfterPlatform(@, FALSE),
                                    !.total_jobs_saved = @ + Cardinality(stored),
                                    !.saved = Append(@, Some(Cardinality(stored)))])
    /\ UNCHANGED <<pipelineVars, request>>

\* the table after lines 146-186: every active row without a salary_min gets
\* the salary data of its title, company and location when that has one
EnrichedAll(view, salary_data) ==
    {IF /\ r \in ActiveRows(view)
        /\ r["salary_min"] = None
        /\ TruthyNumber(salary_data["salary_min"])
     THEN UpdatedRow(r, [r EXCEPT !["salary_min"] = salary_data["salary_min"],
                                  !["salary_max"] = salary_data["salary_max"],
                                  !["salary_currency"] =
                                      salary_data["salary_currency"]], 0)
     ELSE r : r \in view}

\* lines 144-201: the optional enrichment and the summary.  The enrichment
\* raises and changes nothing, or writes what the web gave, or the estimate.
\* The rows of one run share title, company and location, so one lookup
\* fills the cache for all of them.
ScrapeSummary ==
    /\ Val(request).op = "scrape_all"
    /\ Run.exit = None
    /\ Run.at = Len(Platforms) + 1
    /\ IF Val(request).enrich_salaries /\ Run.total_jobs_saved > 0
       THEN \/ db' = db
            \/ \E page \in PageResults \ {None} :
                  db' = EnrichedAll(db, Val(page))
            \/ \E draw \in Draws(Dev, Acme, NYC) :
                  db' = EnrichedAll(db, get_salary_data({}, Dev, Acme, NYC,
                                                        None, draw))
       ELSE db' = db
    /\ response' = Some([Run EXCEPT !.exit = Some(0)])
    /\ UNCHANGED <<pipelineVars, request>>

NextScrape == ScrapeInitDb \/ ScrapePlatform \/ ScrapeSummary

SpecScrape == InitScrape /\ [][NextScrape]_vars

\* the saved counts of the platforms that completed
Completed == SelectSeq(Run.saved, LAMBDA c : c # None)

RECURSIVE SumSeq(_)
SumSeq(counts) ==
    IF counts = <<>> THEN 0 ELSE Val(Head(counts)) + SumSeq(Tail(counts))

\* the platforms the run is to scrape
Enabled ==
    SelectSeq(Platforms,
              LAMBDA platform : platform # "LinkedIn" \/ Val(request).include_linkedin)

\* C26: scrape_all takes the platforms one after another and an exception
\* while scraping or saving one of them does not keep the following ones
\* from being scraped and saved: every platform in turn before the current
\* one was tried, the summary comes after all of them, and total_jobs_saved
\* is the sum of the saved counts of the platforms that completed.
C26_PlatformsIndependent ==
    (Val(request).op = "scrape_all" /\ Run.at >= 1) =>
        /\ Run.total_jobs_saved = SumSeq(Completed)
        /\ Len(Run.saved) =
              Len(SelectSeq(SubSeq(Platforms, 1, Run.at - 1),
                            LAMBDA platform : platform # "LinkedIn"
                                                 \/ Val(request).include_linkedin))
        /\ Run.exit = Some(0) => Len(Run.saved) = Len(Enabled)

\* the run ended after a platform failed and a later platform saved a job
C26_Witness ==
    /\ Val(request).op = "scrape_all"
    /\ Run.exit = Some(0)
    /\ \E i, j \in DOMAIN Run.saved :
          /\ i < j
          /\ Run.saved[i] = None
          /\ Run.saved[j] # None
          /\ Val(Run.saved[j]) > 0

\* ------------------------------------------------ IndeedScraper.search_jobs
MaxLimit == 3       \* the largest limit asked for
MaxCards == 2       \* job cards on one page

max_failures == 3
PageSize == 10
MockOnStatus == 10
MockOnFailures == 15

\* a list of n jobs of one kind: "scraped" from a page, or "mock"
JobsOf(kind, n) == [i \in 1..n |-> kind]

\* _create_mock_indeed_jobs(query, location, count): range(count) jobs
create_mock_indeed_jobs(count) == JobsOf("mock", IF count > 0 THEN count ELSE 0)

\* jobs[:limit], for a limit that is not negative
Prefix(jobs, limit) == SubSeq(jobs, 1, IF limit < Len(jobs) THEN limit ELSE Len(jobs))

\* the call in progress: its locals, the pages asked for so far and how many
\* of the requests raised, and the list returned once it has returned
Call == Val(response)

InitIndeed ==
    /\ db = {}
    /\ PipelineIdle
    /\ request \in {Some([op |-> "indeed", limit |-> l]) : l \in 0..MaxLimit}
    /\ response = Some([pc |-> "while", jobs |-> <<>>, start |-> 0,
                        consecutive_failures |-> 0, pages |-> 0, raised |-> 0,
                        returned |-> None])

\* print(...); return jobs[:limit]
Return(call, limit) ==
    [call EXCEPT !.pc = "returned", !.returned = Some(Prefix(call.jobs, limit))]

\* the except branch, lines 104-111
OnException(call, limit) ==
    LET failed == [call EXCEPT !.consecutive_failures = @ + 1,
                               !.pages = @ + 1, !.raised = @ + 1]
    IN  IF failed.consecutive_failures >= max_failures
        THEN Return([failed EXCEPT !.jobs = @ \o create_mock_indeed_jobs(
                        Min({limit - Len(call.jobs), MockOnFailures}))], limit)
        ELSE failed

\* lines 62-67: a status other than 200, after the retry of a 403
OnBadStatus(call, limit) ==
    Return([call EXCEPT !.pages = @ + 1,
                        !.jobs = @ \o create_mock_indeed_jobs(
                            Min({limit - Len(call.jobs), MockOnStatus}))], limit)

\* lines 76-80: a page without job cards
OnNoCards(call) ==
    [call EXCEPT !.pages = @ + 1, !.consecutive_failures = @ + 1,
                 !.start = @ + PageSize]

\* a page whose accepted cards are all appended, whatever the limit
OnCardsNoBreak(call, limit, accepted) ==
    [call EXCEPT !.pages = @ + 1,
                 !.jobs = @ \o JobsOf("scraped", accepted),
                 !.consecutive_failures = IF accepted = 0 THEN @ + 1 ELSE 0,
                 !.start = @ + PageSize]

\* lines 82-98: a page with cards of which `accepted` pass extraction and
\* validation; the loop over the cards breaks once limit jobs are held
OnCards(call, limit, accepted) ==
    LET page_jobs == Min({accepted, limit - Len(call.jobs)})
    IN  [call EXCEPT !.pages = @ + 1,
                     !.jobs = @ \o JobsOf("scraped", page_jobs),
                     !.consecutive_failures = IF page_jobs = 0 THEN @ + 1 ELSE 0,
                     !.start = @ + PageSize]

\* one turn of the while loop, line 45
IndeedPage ==
    /\ Val(request).op = "indeed"
    /\ Call.pc = "while"
    /\ Len(Call.jobs) < Val(request).limit
    /\ Call.consecutive_failures < max_failures
    /\ \E outcome \in {"exception", "status", "no cards", "cards"} :
          LET limit == Val(request).limit
          IN  CASE outcome = "exception" ->
                      response' = Some(OnException(Call, limit))
                [] outcome = "status" ->
                      response' = Some(OnBadStatus(Call, limit))
                [] outcome = "no cards" ->
                      response' = Some(OnNoCards(Call))
                [] outcome = "cards" ->
                      \E cards \in 1..MaxCards : \E accepted \in 0..cards :
                          response' = Some(OnCards(Call, limit, accepted))
    /\ UNCHANGED <<db, pipelineVars, request>>

\* the loop condition is false: lines 113-114
IndeedReturn ==
    /\ Val(request).op = "indeed"
    /\ Call.pc = "while"
    /\ ~(/\ Len(Call.jobs) < Val(request).limit
         /\ Call.consecutive_failures < max_failures)
    /\ response' = Some(Return(Call, Val(request).limit))
    /\ UNCHANGED <<db, pipelineVars, request>>

NextIndeed == IndeedPage \/ IndeedReturn

SpecIndeed == InitIndeed /\ [][NextIndeed]_vars

\* the loop keeps running: every request times out after 15 seconds
SpecIndeedLive == SpecIndeed /\ WF_vars(NextIndeed)

\* C27 as stated: when every HTTP request of IndeedScraper.search_jobs fails
\* with an exception, search_jobs returns an empty list.
C27_NetworkErrorGivesNothing ==
    (/\ Val(request).op = "indeed"
     /\ Call.pc = "returned"
     /\ Call.raised = Call.pages)
        => Call.returned = Some(<<>>)

\* the call has returned
IndeedReturned == Val(request).op = "indeed" /\ Call.pc = "returned"

\* the loop never turns with limit jobs in hand or after max_failures
\* consecutive failed pages, and what is returned is within the limit
IndeedBounded ==
    Val(request).op = "indeed" =>
        /\ Call.consecutive_failures <= max_failures
        /\ Len(Call.jobs) <= Val(request).limit
        /\ Call.pages <= max_failures * (Val(request).limit + 1)
        /\ IndeedReturned => Len(Val(Call.returned)) <= Val(request).limit

\* C29: IndeedScraper.search_jobs terminates for every limit and every
\* sequence of page outcomes: the paging loop stops after 3 consecutive
\* failed pages or once limit jobs are collected, and the call returns at
\* most limit records.
C29_PagingTerminates == []IndeedBounded /\ <>IndeedReturned

\* the call returned after three failed pages in a row that followed a page
\* with accepted cards
C29_Witness ==
    /\ IndeedReturned
    /\ Call.consecutive_failures = max_failures
    /\ Call.pages > max_failures
    /\ Len(Call.jobs) > 0

\* ---------------------------------------------- LinkedInScraper.search_jobs
max_scrolls == 5

\* the call in progress: where it is, the Chrome drivers started and the
\* quit() calls made on them, self.driver (TRUE when it holds the driver),
\* and the locals of the scroll loop
Scrape == Val(response)

InitLinkedIn ==
    /\ db = {}
    /\ PipelineIdle
    /\ request \in {Some([op |-> "linkedin", limit |-> l]) : l \in 0..MaxLimit}
    /\ response = Some([pc |-> "setup", started |-> 0, quits |-> 0,
                        driver |-> FALSE, jobs |-> 0, scroll_attempts |-> 0,
                        raised |-> FALSE])

\* _scrape_with_selenium, lines 127-129, with _setup_linkedin_driver: Chrome
\* does not start; or it starts and a configuration call raises, and None is
\* returned; or the configured driver is returned
LinkedInSetup ==
    /\ Val(request).op = "linkedin"
    /\ Scrape.pc = "setup"
    /\ \E outcome \in {"no chrome", "configuration raised", "configured"} :
          response' = Some(
              CASE outcome = "no chrome" ->
                      [Scrape EXCEPT !.pc = "fallback", !.raised = TRUE]
                [] outcome = "configuration raised" ->
                      [Scrape EXCEPT !.pc = "fallback", !.started = @ + 1,
                                     !.raised = TRUE]
                [] outcome = "configured" ->
                      [Scrape EXCEPT !.pc = "load", !.started = @ + 1,
                                     !.driver = TRUE])
    /\ UNCHANGED <<db, pipelineVars, request>>

\* lines 131-151: the page load and the wait for job cards
LinkedInLoad ==
    /\ Val(request).op = "linkedin"
    /\ Scrape.pc = "load"
    /\ \E outcome \in {"load raised", "timeout", "loaded"} :
          response' = Some(IF outcome = "loaded"
                           THEN [Scrape EXCEPT !.pc = "scroll"]
                           ELSE [Scrape EXCEPT !.pc = "finally", !.raised = TRUE])
    /\ UNCHANGED <<db, pipelineVars, request>>

\* lines 154-171: one turn of the scroll loop, or its end
LinkedInScroll ==
    /\ Val(request).op = "linkedin"
    /\ Scrape.pc = "scroll"
    /\ IF Scrape.jobs < Val(request).limit /\ Scrape.scroll_attempts < max_scrolls
       THEN \E raised \in BOOLEAN, grown \in BOOLEAN, found \in 0..MaxCards :
               response' = Some(
                   IF raised
                   THEN [Scrape EXCEPT !.pc = "finally", !.raised = TRUE]
                   ELSE [Scrape EXCEPT
                            !.scroll_attempts = IF grown THEN 0 ELSE @ + 1,
                            !.jobs = Min({@ + found, Val(request).limit})])
       ELSE response' = Some([Scrape EXCEPT !.pc = "finally"])
    /\ UNCHANGED <<db, pipelineVars, request>>

\* lines 178-186: finally; quit() may itself raise, which is swallowed
LinkedInFinally ==
    /\ Val(request).op = "linkedin"
    /\ Scrape.pc = "finally"
    /\ response' = Some([Scrape EXCEPT
                            !.quits = IF Scrape.driver THEN @ + 1 ELSE @,
                            !.driver = FALSE,
                            !.pc = IF Scrape.raised \/ Scrape.jobs = 0
                                   THEN "fallback" ELSE "returned"])
    /\ UNCHANGED <<db, pipelineVars, request>>

\* search_jobs, lines 63-81: the approaches without a browser, or the mock
\* data, give the jobs
LinkedInFallback ==
    /\ Val(request).op = "linkedin"
    /\ Scrape.pc = "fallback"
    /\ \E found \in 0..Val(request).limit :
          response' = Some([Scrape EXCEPT !.pc = "returned", !.jobs = found])
    /\ UNCHANGED <<db, pipelineVars, request>>

NextLinkedIn ==
    \/ LinkedInSetup
    \/ LinkedInLoad
    \/ LinkedInScroll
    \/ LinkedInFinally
    \/ LinkedInFallback

SpecLinkedIn == InitLinkedIn /\ [][NextLinkedIn]_vars

\* C28 as stated: every Chrome driver LinkedInScraper starts during
\* search_jobs has been quit exactly once when search_jobs returns, whichever
\* step failed or none, and self.driver is None then.
C28_DriverQuitOnce ==
    (Val(request).op = "linkedin" /\ Scrape.pc = "returned") =>
        /\ Scrape.quits = Scrape.started
        /\ ~Scrape.driver

\* ----------------------------------------------- the salary cache, by call
MaxLookups == 2

\* the (job_title, company_name, location) triples looked up
LookupTitles == {<<"d", "a", "t", "a", "_", "s", "e", "n", "i", "o", "r">>, <<"d", "a", "t", "a">>, <<"D", "a", "t", "a">>}
LookupCompanies == {<<"x">>, <<"s", "e", "n", "i", "o", "r", "_", "x">>}
Triples == {<<t, c, NYC>> : t \in LookupTitles, c \in LookupCompanies}

\* one GlassdoorScraper: its _salary_cache, each entry with the triple it was
\* stored for, and the number of calls made
Scraper == Val(request)

InitCache ==
    /\ db = {}
    /\ PipelineIdle
    /\ request = Some([op |-> "salary lookup", cache |-> {}, calls |-> 0])
    /\ response = None

\* get_salary_data(job_title, company_name, location) is called
SalaryLookup ==
    /\ request # None
    /\ Scraper.op = "salary lookup"
    /\ Scraper.calls < MaxLookups
    /\ \E triple \in Triples, page \in PageResults :
          \E draw \in Draws(triple[1], triple[2], triple[3]) :
             LET key == CacheKey(triple[1], triple[2], triple[3])
                 salary_data == get_salary_data(Scraper.cache, triple[1],
                                                triple[2], triple[3], page, draw)
                 hit == Cached(Scraper.cache, key) # {}
             IN  /\ response' =
                       Some([triple |-> triple, salary_data |-> salary_data,
                             hit |-> hit,
                             origins |-> {e.origin : e \in Cached(Scraper.cache, key)}])
                 /\ request' =
                       Some([Scraper EXCEPT
                               !.calls = @ + 1,
                               !.cache = IF hit THEN @
                                         ELSE @ \cup {[key |-> key,
                                                       data |-> salary_data,
                                                       origin |-> triple]}])
    /\ UNCHANGED <<db, pipelineVars>>

NextCache == SalaryLookup

SpecCache == InitCache /\ [][NextCache]_vars

\* two triples that differ in letter case at most
SameButCase(t1, t2) == \A i \in 1..3 : Lower(t1[i]) = Lower(t2[i])

\* C30 as stated: get_salary_data never answers a lookup for one triple with
\* a result cached for another: a cached result is returned only for a
\* triple equal, letter case apart, to the one it was stored for.
C30_CacheKeepsTriplesApart ==
    (response # None /\ Scraper.op = "salary lookup" /\ Val(response).hit) =>
        \A origin \in Val(response).origins :
            SameButCase(origin, Val(response).triple)

====
